---- MODULE Spec2Model ----
(***************************************************************************)
(* The step-dispatch and deferred-completion engine of                     *)
(* pytorch_pfn_extras.handler.Handler: the partition registry              *)
(* (_ppe_modules), the pending queues (pending_iters), the train and eval  *)
(* steps, the blocking drains at epoch end / evaluation-loop end, and the  *)
(* DeferredResults that resolve in the background.                         *)
(***************************************************************************)
EXTENDS Integers, Sequences, FiniteSets, TLC

\* Bound on the number of steps submitted in a run over every operation
\* and every input.
MaxSteps == 1
\* Bound on the number of steps submitted in a run of one partition that
\* trains and evaluates.
MaxMixed == 2
\* Bound on the number of steps submitted in a training run of one
\* partition.
MaxAsync == 3

VARIABLES
    ppe_modules,    \* Handler._ppe_modules: sequence of <<sn, sm, rt>>
    pending_iters,  \* Handler.pending_iters: defaultdict(list), name -> queue
    pc,             \* position of the driving thread
    call,           \* the operation in progress / last finished
    oplog,          \* collaborator calls made by that operation, in order
    submitted,      \* steps submitted so far, in submission order
    hist,           \* optimizer steps and callbacks of the whole run, in order
    disc            \* what _runtime_iterator has done so far

vars == <<ppe_modules, pending_iters, pc, call, oplog, submitted, hist, disc>>

Min(a, b) == IF a < b THEN a ELSE b

Range(f) == {f[x] : x \in DOMAIN f}

(***************************************************************************)
(* Values.  Python's None is "None"; "p" is a plain tensor; "t" is the     *)
(* tensor a DeferredResult yields.                                         *)
(***************************************************************************)
None == "None"
GetValues == {None, "t"}

\* typing: ModulesTuple = Tuple[str, Module, BaseRuntime]
PA  == <<"a", "ma", "rta">>
PB  == <<"b", "mb", "rtb">>
PA2 == <<"a", "ma2", "rta2">>

\* The models arguments callers pass, each given by what
\* named_runtime_modules / _module_runtime_tag find in it, in order.
NoModels == << >>
ModelsChoices == {NoModels, <<PA>>, <<PA, PB>>, <<PA2>>}
SingleModels == <<PA>>

(***************************************************************************)
(* Python dict / defaultdict(list) operations.                             *)
(***************************************************************************)
EmptyDict == [x \in {} |-> << >>]
DictSet(d, k, v) == [x \in (DOMAIN d) \cup {k} |-> IF x = k THEN v ELSE d[x]]
DictDel(d, k) == [x \in (DOMAIN d) \ {k} |-> d[x]]
\* d[k] of a defaultdict(list): a missing key is created with an empty list.
DefaultGet(d, k) == IF k \in DOMAIN d THEN d ELSE DictSet(d, k, << >>)
\* bool(d)
Truthy(d) == DOMAIN d # {}
\* d.get(k, None)
DictGetOrNone(d, k) == IF k \in DOMAIN d THEN d[k] ELSE None

(***************************************************************************)
(* Step outputs.  A component is a plain value or a DeferredResult with    *)
(* its done flag and the value its get() returns once it is done.          *)
(***************************************************************************)
Plain == [deferred |-> FALSE, done |-> TRUE, val |-> "p"]
Deferred(d, v) == [deferred |-> TRUE, done |-> d, val |-> v]
Components == {Plain} \cup {Deferred(d, v) : d \in BOOLEAN, v \in GetValues}
\* The entries of a mapping output: the value of get() is stored under the
\* key whatever it is, so one value stands for all.
DictComponents == {Plain} \cup {Deferred(d, "t") : d \in BOOLEAN}

\* kind "value": neither a DeferredResult nor a dict; "deferred": a single
\* DeferredResult; "dict": a mapping, comps[k] the value under the k-th key.
ValueOuts == {[kind |-> "value", comps |-> <<Plain>>]}
SingleDeferredOuts ==
    {[kind |-> "deferred", comps |-> <<c>>] : c \in Components \ {Plain}}
\* Mappings of one entry and of two.
DictOuts ==
    {[kind |-> "dict", comps |-> cs] :
        cs \in {<<c>> : c \in DictComponents}
                \cup {<<c, d>> : c \in DictComponents, d \in DictComponents}}
AllOuts == ValueOuts \cup SingleDeferredOuts \cup DictOuts

(***************************************************************************)
(* What _get_deferred_outputs returns and what a callback receives:        *)
(* None, a single value, or a dict (m[k] the value under the k-th key).    *)
(***************************************************************************)
NoneT == [kind |-> "None", v |-> None, m |-> << >>]
ValueT(v) == [kind |-> "value", v |-> v, m |-> << >>]
DictT(m) == [kind |-> "dict", v |-> None, m |-> m]
\* The object DeferredResult.get() hands back.
GetT(v) == IF v = None THEN NoneT ELSE ValueT(v)
\* The outs of a synchronous step, as handed to complete_fn.
PlainT(outs) ==
    IF outs.kind = "dict"
    THEN DictT([k \in DOMAIN outs.comps |-> outs.comps[k].val])
    ELSE ValueT(outs.comps[1].val)

(***************************************************************************)
(* A call to a collaborator (Runtime, Logic, DeferredResult, callback).    *)
(* idx is the batch index, or the entry's position for done/wait/get.      *)
(***************************************************************************)
Ev(ev, sn, idx) ==
    [ev |-> ev, sn |-> sn, idx |-> idx, outs |-> NoneT,
     flag |-> "-", fn |-> "-", load |-> "-"]

NoFault == "none"
\* The collaborator calls that may raise inside a handler operation.
Faults == {NoFault, "logic_step", "train_step_optimizers", "cback",
           "done", "wait", "get"}

(***************************************************************************)
(* The interpreter state threaded through the statements of one handler    *)
(* operation: the Handler's fields, the logs, and the exception (if any)   *)
(* that is propagating.  A statement is skipped once err is set.           *)
(***************************************************************************)
Cur(fault, log) ==
    [mods |-> ppe_modules, pend |-> pending_iters, oplog |-> log,
     hist |-> hist, disc |-> disc, err |-> "none", fault |-> fault]

Log(s, e) == [s EXCEPT !.oplog = Append(@, e)]
\* hist keeps which call it was, for which batch index, with which flag.
LogHist(s, e) ==
    [s EXCEPT !.oplog = Append(@, e),
              !.hist = Append(@, [ev |-> e.ev, idx |-> e.idx, flag |-> e.flag])]
Raise(s, e) == [s EXCEPT !.err = e]
Ok(s) == s.err = "none"

\* A call to Logic or to a callback: recorded, and raising if it is the
\* call the fault names.
Collab(s, e, faultName, inHist) ==
    IF ~Ok(s) THEN s
    ELSE LET s1 == IF inHist THEN LogHist(s, e) ELSE Log(s, e)
         IN  IF s.fault = faultName THEN Raise(s1, "CollaboratorError") ELSE s1

(***************************************************************************)
(* Handler._runtime_iterator, a generator: IterStart is its first          *)
(* resumption (the emptiness test of _ppe_modules), IterNext its i-th      *)
(* yield (appending to _ppe_modules first when discovering).               *)
(***************************************************************************)
\* Faulty variant: the registry is never taken as built.
IterFreshAlways(s) == TRUE

IterFresh(s) == Len(s.mods) = 0
IterSource(s, models) == IF IterFresh(s) THEN models ELSE s.mods

IterStart(s, models) ==
    IF ~Ok(s) THEN s
    ELSE [s EXCEPT !.disc =
            [n |-> Min(s.disc.n + 1, 2),
             first |-> IF s.disc.n = 0 THEN models ELSE s.disc.first,
             last |-> << >>,
             full |-> Len(IterSource(s, models)) = 0]]

IterNext(s, src, fresh, i) ==
    [s EXCEPT !.mods = IF fresh THEN Append(@, src[i]) ELSE @,
              !.disc.last = Append(@, src[i]),
              !.disc.full = (i = Len(src))]

\* for ... in self._runtime_iterator(models): run to exhaustion, no body.
RECURSIVE IterAll(_, _, _, _)
IterAll(s, src, fresh, i) ==
    IF ~Ok(s) \/ i > Len(src) THEN s
    ELSE IterAll(IterNext(s, src, fresh, i), src, fresh, i + 1)

\* for _, sm, rt in self._runtime_iterator(models): rt.<hook>(sm, ...)
\* raiseAt = i > 0: the hook raises on the i-th partition.
RECURSIVE HookLoop(_, _, _, _, _, _, _)
HookLoop(s, src, fresh, i, hook, idx, raiseAt) ==
    IF ~Ok(s) \/ i > Len(src) THEN s
    ELSE LET s1 == IterNext(s, src, fresh, i)
             s2 == Log(s1, Ev(hook, src[i][1], idx))
             s3 == IF raiseAt = i THEN Raise(s2, "HookError") ELSE s2
         IN  HookLoop(s3, src, fresh, i + 1, hook, idx, raiseAt)

ForEachRuntime(s, models, hook, idx, raiseAt) ==
    LET s0 == IterStart(s, models)
    IN  HookLoop(s0, IterSource(s, models), IterFresh(s), 1, hook, idx, raiseAt)

(***************************************************************************)
(* Handler._setup.  A loader is a dict of loaders or anything else; the    *)
(* optimizers are a dict name -> optimizer.                                *)
(***************************************************************************)
NoStrDict == [x \in {} |-> None]
NonDictLoader == [isdict |-> FALSE, obj |-> "L", map |-> NoStrDict]
DictLoader(m) == [isdict |-> TRUE, obj |-> None, map |-> m]
LoaderChoices == {NonDictLoader, DictLoader(NoStrDict), DictLoader("a" :> "La")}
OptimizerChoices ==
    {NoStrDict, "a" :> "oa", "b" :> "ob", ("a" :> "oa") @@ ("b" :> "ob"),
     ("b" :> "ob") @@ ("c" :> "oc")}

\* Faulty variant: any optimizer stands in for a missing one.
ResolveOptimizerAnyFallback(optimizers, sn) ==
    LET optim == DictGetOrNone(optimizers, sn)
    IN  IF optim = None /\ Cardinality(DOMAIN optimizers) >= 1
        THEN optimizers[CHOOSE k \in DOMAIN optimizers : TRUE]
        ELSE optim

\* optim = optimizers.get(sn, None)
\* if optim is None and len(optimizers) == 1: optim = next(iter(values))
ResolveOptimizer(optimizers, sn) ==
    LET optim == DictGetOrNone(optimizers, sn)
    IN  IF optim = None /\ Cardinality(DOMAIN optimizers) = 1
        THEN optimizers[CHOOSE k \in DOMAIN optimizers : TRUE]
        ELSE optim

\* for sn, sm, rt in self._runtime_iterator(models):
\*     rt.initialize_module(sm, load, optim)
RECURSIVE SetupLoop(_, _, _, _, _, _, _)
SetupLoop(s, src, fresh, i, loaders, optimizers, raiseAt) ==
    IF ~Ok(s) \/ i > Len(src) THEN s
    ELSE LET s1 == IterNext(s, src, fresh, i)
             sn == src[i][1]
             e  == [Ev("initialize_module", sn, -1) EXCEPT
                        !.fn = ResolveOptimizer(optimizers, sn),
                        !.load = DictGetOrNone(loaders, sn)]
             s2 == Log(s1, e)
             s3 == IF raiseAt = i THEN Raise(s2, "HookError") ELSE s2
         IN  SetupLoop(s3, src, fresh, i + 1, loaders, optimizers, raiseAt)

NoPartitionsError == "RuntimeError: call ppe.to before starting the training"

\* Faulty variant: a registry of one partition is refused too.
SetupOffByOne(s, models, loader, optimizers, raiseAt) ==
    LET s1 == IF loader.isdict THEN s
              ELSE IterAll(IterStart(s, models), IterSource(s, models),
                           IterFresh(s), 1)
        loaders == IF loader.isdict THEN loader.map
                   ELSE [sn \in {s1.disc.last[i][1] : i \in DOMAIN s1.disc.last}
                            |-> loader.obj]
        s2 == SetupLoop(IterStart(s1, models), IterSource(s1, models),
                        IterFresh(s1), 1, loaders, optimizers, raiseAt)
    IN  IF Ok(s2) /\ Len(s2.mods) <= 1 THEN Raise(s2, NoPartitionsError) ELSE s2

Setup(s, models, loader, optimizers, raiseAt) ==
    LET \* loaders = {sn: loader for sn, _, _ in self._runtime_iterator(models)}
        s1 == IF loader.isdict THEN s
              ELSE IterAll(IterStart(s, models), IterSource(s, models),
                           IterFresh(s), 1)
        loaders == IF loader.isdict THEN loader.map
                   ELSE [sn \in {s1.disc.last[i][1] : i \in DOMAIN s1.disc.last}
                            |-> loader.obj]
        s2 == SetupLoop(IterStart(s1, models), IterSource(s1, models),
                        IterFresh(s1), 1, loaders, optimizers, raiseAt)
    IN  IF Ok(s2) /\ Len(s2.mods) = 0 THEN Raise(s2, NoPartitionsError) ELSE s2

(***************************************************************************)
(* Handler._are_outs_deferred and Handler._get_deferred_outputs.           *)
(***************************************************************************)
AreOutsDeferred(outs) ==
    \/ outs.kind = "deferred"
    \/ /\ outs.kind = "dict"
       /\ \E k \in DOMAIN outs.comps : outs.comps[k].deferred

\* One DeferredResult of the output (entry k): done(), then wait() when
\* blocking, then get().  r is [t, evs, comps, err, ready].  wait() returns
\* once the result is available, so the result is done afterwards.
PollOne(r, k, wait, fault) ==
    LET v == r.comps[k]
        eDone == Ev("done", "", k)
        eWait == Ev("wait", "", k)
        eGet  == [Ev("get", "", k) EXCEPT !.outs = GetT(v.val)]
    IN  IF fault = "done"
        THEN [r EXCEPT !.evs = @ \o <<eDone>>, !.err = "DeferredError"]
        ELSE IF ~v.done /\ wait
        THEN IF fault = "wait"
             THEN [r EXCEPT !.evs = @ \o <<eDone, eWait>>,
                            !.err = "DeferredError"]
             ELSE IF fault = "get"
             THEN [r EXCEPT !.evs = @ \o <<eDone, eWait, eGet>>,
                            !.comps[k].done = TRUE, !.err = "DeferredError"]
             ELSE [r EXCEPT !.evs = @ \o <<eDone, eWait, eGet>>,
                            !.comps[k].done = TRUE]
        ELSE IF ~v.done
        THEN [r EXCEPT !.evs = @ \o <<eDone>>, !.ready = FALSE]
        ELSE IF fault = "get"
        THEN [r EXCEPT !.evs = @ \o <<eDone, eGet>>, !.err = "DeferredError"]
        ELSE [r EXCEPT !.evs = @ \o <<eDone, eGet>>]

\* Faulty variant: only the values of the DeferredResults are gathered.
RECURSIVE GetDictOutputsDeferredOnly(_, _, _, _)
GetDictOutputsDeferredOnly(r, k, wait, fault) ==
    IF r.err # "none" \/ ~r.ready THEN [r EXCEPT !.t = NoneT]
    ELSE IF k > Len(r.comps) THEN r
    ELSE LET v == r.comps[k]
             r1 == IF v.deferred THEN PollOne(r, k, wait, fault) ELSE r
             r2 == IF v.deferred
                   THEN [r1 EXCEPT !.t = DictT(Append(r.t.m, v.val))]
                   ELSE r1
         IN  GetDictOutputsDeferredOnly(r2, k + 1, wait, fault)

\* Faulty variant: a pending entry ends the loop with the entries gathered so far.
RECURSIVE GetDictOutputsPartial(_, _, _, _)
GetDictOutputsPartial(r, k, wait, fault) ==
    IF r.err # "none" THEN [r EXCEPT !.t = NoneT]
    ELSE IF ~r.ready \/ k > Len(r.comps) THEN r
    ELSE LET v == r.comps[k]
             r1 == IF v.deferred THEN PollOne(r, k, wait, fault) ELSE r
             r2 == IF r1.ready THEN [r1 EXCEPT !.t = DictT(Append(r.t.m, v.val))]
                   ELSE r1
         IN  GetDictOutputsPartial(r2, k + 1, wait, fault)

\* for k, v in p_iter.deferred.items(): ...   (return None on a pending one)
RECURSIVE GetDictOutputs(_, _, _, _)
GetDictOutputs(r, k, wait, fault) ==
    IF r.err # "none" \/ ~r.ready THEN [r EXCEPT !.t = NoneT]
    ELSE IF k > Len(r.comps) THEN r
    ELSE LET v == r.comps[k]
             r1 == IF v.deferred THEN PollOne(r, k, wait, fault) ELSE r
             r2 == [r1 EXCEPT !.t = DictT(Append(r.t.m, v.val))]
         IN  GetDictOutputs(r2, k + 1, wait, fault)

GetDeferredOutputs(p_iter, wait, fault) ==
    LET r0 == [t |-> NoneT, evs |-> << >>, comps |-> p_iter.deferred.comps,
               err |-> "none", ready |-> TRUE]
    IN  IF p_iter.deferred.kind = "dict"
        THEN GetDictOutputs([r0 EXCEPT !.t = DictT(<< >>)], 1, wait, fault)
        ELSE LET r1 == PollOne(r0, 1, wait, fault)
             IN  IF r1.err = "none" /\ r1.ready
                 THEN [r1 EXCEPT !.t = GetT(r0.comps[1].val)]
                 ELSE r1

(***************************************************************************)
(* Commit of the queue head: Handler._complete_train_step and              *)
(* Handler._complete_eval_step.  block is the is_deferred keyword.         *)
(***************************************************************************)
LogicTrainStepOptimizers(s, idx) ==
    Collab(s, Ev("train_step_optimizers", "", idx), "train_step_optimizers", TRUE)

Cback(s, cback, idx, outs, flag) ==
    Collab(s, [Ev("cback", "", idx) EXCEPT !.outs = outs, !.flag = flag,
                                           !.fn = cback],
           "cback", TRUE)

\* del self.pending_iters[sn] when the list has become empty
DelIfEmpty(s, sn) ==
    IF ~Ok(s) THEN s
    ELSE IF Len(s.pend[sn]) = 0 THEN [s EXCEPT !.pend = DictDel(@, sn)] ELSE s

\* Faulty variant: the newest iteration of the queue is committed, not its head.
CompleteTrainStepNewest(s, outs, block, sn) ==
    IF ~Ok(s) THEN s
    ELSE LET d == DefaultGet(s.pend, sn)
         IN  IF Len(d[sn]) = 0
             THEN Raise([s EXCEPT !.pend = d], "IndexError")
             ELSE LET p_iter == d[sn][Len(d[sn])]
                      s1 == [s EXCEPT !.pend =
                                DictSet(d, sn, SubSeq(d[sn], 1, Len(d[sn]) - 1))]
                      s2 == LogicTrainStepOptimizers(s1, p_iter.idx)
                      s3 == DelIfEmpty(s2, sn)
                  IN  Cback(s3, p_iter.cback, p_iter.idx, outs, block)

CompleteTrainStep(s, outs, block, sn) ==
    IF ~Ok(s) THEN s
    ELSE LET d == DefaultGet(s.pend, sn)
         IN  IF Len(d[sn]) = 0
             THEN Raise([s EXCEPT !.pend = d], "IndexError")
             ELSE LET p_iter == d[sn][1]
                      s1 == [s EXCEPT !.pend = DictSet(d, sn, Tail(d[sn]))]
                      s2 == LogicTrainStepOptimizers(s1, p_iter.idx)
                      s3 == DelIfEmpty(s2, sn)
                  IN  Cback(s3, p_iter.cback, p_iter.idx, outs, block)

CompleteEvalStep(s, outs, block, sn) ==
    IF ~Ok(s) THEN s
    ELSE LET d == DefaultGet(s.pend, sn)
         IN  IF Len(d[sn]) = 0
             THEN Raise([s EXCEPT !.pend = d], "IndexError")
             ELSE LET p_iter == d[sn][1]
                      s1 == [s EXCEPT !.pend = DictSet(d, sn, Tail(d[sn]))]
                      s2 == DelIfEmpty(s1, sn)
                  IN  Cback(s2, p_iter.cback, p_iter.idx, outs, block)

\* Faulty variant: an evaluation commit goes through the training commit.
CompleteAlwaysTrain(s, outs, block, sn, kind) ==
    CompleteTrainStep(s, outs, block, sn)

Complete(s, outs, block, sn, kind) ==
    IF kind = "train" THEN CompleteTrainStep(s, outs, block, sn)
    ELSE CompleteEvalStep(s, outs, block, sn)

\* Faulty variant: a DeferredResult call that raised is made once more.
ResolveHeadRetrying(s, sn, wait) ==
    IF ~Ok(s) THEN [s |-> s, t |-> NoneT]
    ELSE LET d == DefaultGet(s.pend, sn)
         IN  IF Len(d[sn]) = 0
             THEN [s |-> Raise([s EXCEPT !.pend = d], "IndexError"), t |-> NoneT]
             ELSE LET r == GetDeferredOutputs(d[sn][1], wait, s.fault)
                      again == IF r.err = "none" THEN << >>
                               ELSE <<r.evs[Len(r.evs)]>>
                  IN  [s |-> [s EXCEPT !.pend = [d EXCEPT ![sn][1].deferred.comps = r.comps],
                                       !.oplog = @ \o r.evs \o again,
                                       !.err = r.err],
                       t |-> r.t]

\* t_outs = self._get_deferred_outputs(self.pending_iters[sn][0], wait)
\* The DeferredResults are shared with the queue entry, so a wait() shows
\* in the entry.
ResolveHead(s, sn, wait) ==
    IF ~Ok(s) THEN [s |-> s, t |-> NoneT]
    ELSE LET d == DefaultGet(s.pend, sn)
         IN  IF Len(d[sn]) = 0
             THEN [s |-> Raise([s EXCEPT !.pend = d], "IndexError"), t |-> NoneT]
             ELSE LET r == GetDeferredOutputs(d[sn][1], wait, s.fault)
                  IN  [s |-> [s EXCEPT !.pend = [d EXCEPT ![sn][1].deferred.comps = r.comps],
                                       !.oplog = @ \o r.evs,
                                       !.err = r.err],
                       t |-> r.t]

(***************************************************************************)
(* Handler.train_step / Handler.eval_step.                                 *)
(***************************************************************************)
AsyncSplitError == "RuntimeError: Async mode is not supported in models splitted across different devices"

\* for sn, sm, rt in self._runtime_iterator(models):
\*     self.pending_iters[sn].append(_DeferredIteration(...))
\*     t_outs = self._get_deferred_outputs(self.pending_iters[sn][0])
\*     if t_outs is not None: self._complete_<kind>_step(..., False, ...)
\* Faulty variant: the step blocks on the queue head.
RECURSIVE DeferLoopBlocking(_, _, _, _, _, _)
DeferLoopBlocking(s, src, fresh, i, p_iter, kind) ==
    IF ~Ok(s) \/ i > Len(src) THEN s
    ELSE LET s1 == IterNext(s, src, fresh, i)
             sn == src[i][1]
             d  == DefaultGet(s1.pend, sn)
             s2 == [s1 EXCEPT !.pend = DictSet(d, sn, Append(d[sn], p_iter))]
             r  == ResolveHead(s2, sn, TRUE)
             s3 == IF Ok(r.s) /\ r.t # NoneT
                   THEN Complete(r.s, r.t, "False", sn, kind)
                   ELSE r.s
         IN  DeferLoopBlocking(s3, src, fresh, i + 1, p_iter, kind)

\* Faulty variant: a resolved head takes the iteration behind it along.
RECURSIVE DeferLoopCommitTwice(_, _, _, _, _, _)
DeferLoopCommitTwice(s, src, fresh, i, p_iter, kind) ==
    IF ~Ok(s) \/ i > Len(src) THEN s
    ELSE LET s1 == IterNext(s, src, fresh, i)
             sn == src[i][1]
             d  == DefaultGet(s1.pend, sn)
             s2 == [s1 EXCEPT !.pend = DictSet(d, sn, Append(d[sn], p_iter))]
             r  == ResolveHead(s2, sn, FALSE)
             s3 == IF Ok(r.s) /\ r.t # NoneT
                   THEN Complete(r.s, r.t, "False", sn, kind)
                   ELSE r.s
             s4 == IF Ok(s3) /\ r.t # NoneT /\ sn \in DOMAIN s3.pend
                   THEN Complete(s3, r.t, "False", sn, kind)
                   ELSE s3
         IN  DeferLoopCommitTwice(s4, src, fresh, i + 1, p_iter, kind)

\* Faulty variant: after a commit the step goes on to poll the next head.
RECURSIVE DeferLoopGreedy(_, _, _, _, _, _)
DeferLoopGreedy(s, src, fresh, i, p_iter, kind) ==
    IF ~Ok(s) \/ i > Len(src) THEN s
    ELSE LET s1 == IterNext(s, src, fresh, i)
             sn == src[i][1]
             d  == DefaultGet(s1.pend, sn)
             s2 == [s1 EXCEPT !.pend = DictSet(d, sn, Append(d[sn], p_iter))]
             r  == ResolveHead(s2, sn, FALSE)
             s3 == IF Ok(r.s) /\ r.t # NoneT
                   THEN Complete(r.s, r.t, "False", sn, kind)
                   ELSE r.s
             more == Ok(s3) /\ r.t # NoneT /\ sn \in DOMAIN s3.pend
             r2 == IF more THEN ResolveHead(s3, sn, FALSE)
                   ELSE [s |-> s3, t |-> NoneT]
             s4 == IF more /\ Ok(r2.s) /\ r2.t # NoneT
                   THEN Complete(r2.s, r2.t, "False", sn, kind)
                   ELSE r2.s
         IN  DeferLoopGreedy(s4, src, fresh, i + 1, p_iter, kind)

RECURSIVE DeferLoop(_, _, _, _, _, _)
DeferLoop(s, src, fresh, i, p_iter, kind) ==
    IF ~Ok(s) \/ i > Len(src) THEN s
    ELSE LET s1 == IterNext(s, src, fresh, i)
             sn == src[i][1]
             d  == DefaultGet(s1.pend, sn)
             s2 == [s1 EXCEPT !.pend = DictSet(d, sn, Append(d[sn], p_iter))]
             r  == ResolveHead(s2, sn, FALSE)
             s3 == IF Ok(r.s) /\ r.t # NoneT
                   THEN Complete(r.s, r.t, "False", sn, kind)
                   ELSE r.s
         IN  DeferLoop(s3, src, fresh, i + 1, p_iter, kind)

\* Faulty variant: only an empty registry is rejected.
DeferStepAnySplit(s, models, batch_idx, outs, complete_fn, kind) ==
    IF ~Ok(s) THEN s
    ELSE IF Len(s.mods) = 0 THEN Raise(s, AsyncSplitError)
    ELSE DeferLoop(IterStart(s, models), IterSource(s, models), IterFresh(s), 1,
                   [deferred |-> outs, idx |-> batch_idx,
                    batch |-> "converted", cback |-> complete_fn],
                   kind)

DeferStep(s, models, batch_idx, outs, complete_fn, kind) ==
    IF ~Ok(s) THEN s
    ELSE IF Len(s.mods) # 1 THEN Raise(s, AsyncSplitError)
    ELSE DeferLoop(IterStart(s, models), IterSource(s, models), IterFresh(s), 1,
                   [deferred |-> outs, idx |-> batch_idx,
                    batch |-> "converted", cback |-> complete_fn],
                   kind)

\* Faulty variant: a synchronous step calls back before it steps the optimizers.
TrainStepBodyCallbackFirst(s, models, batch_idx, outs, complete_fn, raiseAt) ==
    LET s1 == ForEachRuntime(s, models, "train_pre_step", batch_idx, raiseAt)
        s2 == Collab(s1, Ev("convert_batch", "", batch_idx), "convert_batch", FALSE)
        s3 == Collab(s2, [Ev("logic.train_step", "", batch_idx) EXCEPT
                             !.load = "converted"], "logic_step", FALSE)
    IN  IF AreOutsDeferred(outs)
        THEN DeferStep(s3, models, batch_idx, outs, complete_fn, "train")
        ELSE LogicTrainStepOptimizers(
                 Cback(s3, complete_fn, batch_idx, PlainT(outs), "not_passed"),
                 batch_idx)

\* Faulty variant: Logic.train_step is given the batch before it is converted.
TrainStepBodyLogicFirst(s, models, batch_idx, outs, complete_fn, raiseAt) ==
    LET s1 == ForEachRuntime(s, models, "train_pre_step", batch_idx, raiseAt)
        s2 == Collab(s1, [Ev("logic.train_step", "", batch_idx) EXCEPT
                             !.load = "raw"], "logic_step", FALSE)
        s3 == Collab(s2, Ev("convert_batch", "", batch_idx), "convert_batch", FALSE)
    IN  IF AreOutsDeferred(outs)
        THEN DeferStep(s3, models, batch_idx, outs, complete_fn, "train")
        ELSE Cback(LogicTrainStepOptimizers(s3, batch_idx),
                   complete_fn, batch_idx, PlainT(outs), "not_passed")

\* batch = self._entry_runtime.convert_batch(batch); Logic is given the
\* converted batch.
TrainStepBody(s, models, batch_idx, outs, complete_fn, raiseAt) ==
    LET s1 == ForEachRuntime(s, models, "train_pre_step", batch_idx, raiseAt)
        s2 == Collab(s1, Ev("convert_batch", "", batch_idx), "convert_batch", FALSE)
        s3 == Collab(s2, [Ev("logic.train_step", "", batch_idx) EXCEPT
                             !.load = "converted"], "logic_step", FALSE)
    IN  IF AreOutsDeferred(outs)
        THEN DeferStep(s3, models, batch_idx, outs, complete_fn, "train")
        ELSE Cback(LogicTrainStepOptimizers(s3, batch_idx),
                   complete_fn, batch_idx, PlainT(outs), "not_passed")

EvalStepBody(s, models, batch_idx, outs, complete_fn, raiseAt) ==
    LET s1 == ForEachRuntime(s, models, "eval_pre_step", batch_idx, raiseAt)
        s2 == Collab(s1, Ev("convert_batch", "", batch_idx), "convert_batch", FALSE)
        s3 == Collab(s2, [Ev("logic.eval_step", "", batch_idx) EXCEPT
                             !.load = "converted"], "logic_step", FALSE)
    IN  IF AreOutsDeferred(outs)
        THEN DeferStep(s3, models, batch_idx, outs, complete_fn, "eval")
        ELSE Cback(s3, complete_fn, batch_idx, PlainT(outs), "not_passed")

(***************************************************************************)
(* One pass of the while loop of train_epoch_end / eval_loop_end.          *)
(***************************************************************************)
\* Faulty variant: the drain commits with is_deferred=False.
RECURSIVE DrainLoopUnflagged(_, _, _, _, _)
DrainLoopUnflagged(s, src, fresh, i, kind) ==
    IF ~Ok(s) \/ i > Len(src) THEN s
    ELSE LET s1 == IterNext(s, src, fresh, i)
             sn == src[i][1]
             r  == ResolveHead(s1, sn, TRUE)
             s2 == Complete(r.s, r.t, "False", sn, kind)
         IN  DrainLoopUnflagged(s2, src, fresh, i + 1, kind)

\* Faulty variant: the drain resolves the head and leaves it in the queue.
RECURSIVE DrainLoopPeek(_, _, _, _, _)
DrainLoopPeek(s, src, fresh, i, kind) ==
    IF ~Ok(s) \/ i > Len(src) THEN s
    ELSE CHOOSE out \in
           {DrainLoopPeek(r.s, src, fresh, i + 1, kind) :
              r \in {ResolveHead(s1, src[i][1], TRUE) :
                 s1 \in {IterNext(s, src, fresh, i)}}} : TRUE

\* for sn, sm, rt in self._runtime_iterator(models):
\*     t_outs = self._get_deferred_outputs(self.pending_iters[sn][0], True)
\*     self._complete_<kind>_step(..., t_outs, True, sn, sm, rt)
\* s1 is the state after the iterator's yield, r after the resolution, s2
\* after the commit; each is bound to its value, one statement after the
\* other.
RECURSIVE DrainLoop(_, _, _, _, _)
DrainLoop(s, src, fresh, i, kind) ==
    IF ~Ok(s) \/ i > Len(src) THEN s
    ELSE CHOOSE out \in
           {DrainLoop(s2, src, fresh, i + 1, kind) :
              s2 \in {Complete(r.s, r.t, "True", src[i][1], kind) :
                 r \in {ResolveHead(s1, src[i][1], TRUE) :
                    s1 \in {IterNext(s, src, fresh, i)}}}} : TRUE

DrainPass(s, models, kind) ==
    DrainLoop(IterStart(s, models), IterSource(s, models), IterFresh(s), 1, kind)

(***************************************************************************)
(* The state after Handler.__init__.                                       *)
(***************************************************************************)
NoCall(op) ==
    [op |-> op, models |-> NoModels, idx |-> -1, deferred |-> FALSE,
     outs |-> [kind |-> "value", comps |-> <<Plain>>],
     err |-> "none", returned |-> TRUE, pre |-> EmptyDict,
     optimizers |-> NoStrDict]

Init ==
    /\ ppe_modules = << >>
    /\ pending_iters = EmptyDict
    /\ pc = "idle"
    /\ call = NoCall("__init__")
    /\ oplog = << >>
    /\ submitted = << >>
    /\ hist = << >>
    /\ disc = [n |-> 0, first |-> << >>, last |-> << >>, full |-> FALSE]

\* The handler's fields and the logs after the statements that led to s.
Store(s) ==
    /\ ppe_modules' = s.mods
    /\ pending_iters' = s.pend
    /\ oplog' = s.oplog
    /\ hist' = s.hist
    /\ disc' = s.disc

\* An operation that runs from call to return (or raise) in one step.
Whole(s, c) ==
    /\ Store(s)
    /\ pc' = "idle"
    /\ call' = [c EXCEPT !.err = s.err, !.returned = Ok(s)]

\* The partitions on which a hook may raise, 0 for none.
RaiseAts(models) ==
    0..Len(IF Len(ppe_modules) = 0 THEN models ELSE ppe_modules)

(***************************************************************************)
(* Handler operations.                                                     *)
(***************************************************************************)
TrainSetup(models, loader, optimizers, raiseAt) ==
    /\ pc = "idle"
    /\ raiseAt \in RaiseAts(models)
    /\ LET s0 == Log(Cur(NoFault, << >>), Ev("model.train", "", -1))
       IN  Whole(Setup(s0, models, loader, optimizers, raiseAt),
                 [NoCall("train_setup") EXCEPT !.optimizers = optimizers])
    /\ UNCHANGED submitted

EvalSetup(models, loader, raiseAt) ==
    /\ pc = "idle"
    /\ raiseAt \in RaiseAts(models)
    /\ LET s0 == Log(Cur(NoFault, << >>), Ev("model.eval", "", -1))
       IN  Whole(Setup(s0, models, loader, NoStrDict, raiseAt),
                 NoCall("eval_setup"))
    /\ UNCHANGED submitted

TrainEpochBegin(models, raiseAt) ==
    /\ pc = "idle"
    /\ raiseAt \in RaiseAts(models)
    /\ LET s1 == ForEachRuntime(Cur(NoFault, << >>), models,
                                "train_epoch_begin", -1, raiseAt)
           s2 == Collab(s1, Ev("logic.train_epoch_begin", "", -1),
                        "logic.train_epoch_begin", FALSE)
       IN  Whole(s2, NoCall("train_epoch_begin"))
    /\ UNCHANGED submitted

TrainStep(models, outs, raiseAt, fault) ==
    /\ pc = "idle"
    /\ raiseAt \in RaiseAts(models)
    /\ raiseAt # 0 => fault = NoFault
    /\ LET batch_idx == Len(submitted)
           s == TrainStepBody(Cur(fault, << >>), models, batch_idx, outs,
                              "train_cb", raiseAt)
       IN  /\ Whole(s, [NoCall("train_step") EXCEPT
                           !.idx = batch_idx, !.outs = outs,
                           !.deferred = AreOutsDeferred(outs)])
           /\ submitted' = Append(submitted,
                  [idx |-> batch_idx, op |-> "train",
                   deferred |-> AreOutsDeferred(outs)])

EvalStep(models, outs, raiseAt, fault) ==
    /\ pc = "idle"
    /\ raiseAt \in RaiseAts(models)
    /\ raiseAt # 0 => fault = NoFault
    /\ LET batch_idx == Len(submitted)
           s == EvalStepBody(Cur(fault, << >>), models, batch_idx, outs,
                             "eval_cb", raiseAt)
       IN  /\ Whole(s, [NoCall("eval_step") EXCEPT
                           !.idx = batch_idx, !.outs = outs,
                           !.deferred = AreOutsDeferred(outs)])
           /\ submitted' = Append(submitted,
                  [idx |-> batch_idx, op |-> "eval",
                   deferred |-> AreOutsDeferred(outs)])

\* Whether every DeferredResult of an output is done.
AllDone(outs) ==
    \A k \in DOMAIN outs.comps : outs.comps[k].deferred => outs.comps[k].done

\* The queues as a drain finds them: each iteration's batch index and
\* whether its output had resolved already.
Snapshot(pend) ==
    [sn \in DOMAIN pend |->
        [i \in DOMAIN pend[sn] |->
            [idx |-> pend[sn][i].idx, ready |-> AllDone(pend[sn][i].deferred)]]]

\* train_epoch_end / eval_loop_end is entered ...
DrainCall(op, models) ==
    /\ pc = "idle"
    /\ pc' = op
    /\ call' = [NoCall(op) EXCEPT !.models = models, !.returned = FALSE,
                                  !.pre = Snapshot(pending_iters)]
    /\ oplog' = << >>
    /\ UNCHANGED <<ppe_modules, pending_iters, submitted, hist, disc>>

\* Faulty variant: the loop body runs whatever pending_iters holds.
DrainStepDoWhile(op, kind, fault) ==
    /\ pc = op
    /\ \E s \in {DrainPass(Cur(fault, oplog), call.models, kind)} :
           /\ Store(s)
           /\ pc' = IF Ok(s) THEN op ELSE "idle"
           /\ call' = [call EXCEPT !.err = s.err,
                                   !.models = IF Ok(s) THEN @ ELSE NoModels]
    /\ UNCHANGED submitted

\* ... runs one pass of `while self.pending_iters:` ...
DrainStep(op, kind, fault) ==
    /\ pc = op
    /\ Truthy(pending_iters)
    /\ \E s \in {DrainPass(Cur(fault, oplog), call.models, kind)} :
           /\ Store(s)
           /\ pc' = IF Ok(s) THEN op ELSE "idle"
           /\ call' = [call EXCEPT !.err = s.err,
                                   !.models = IF Ok(s) THEN @ ELSE NoModels]
    /\ UNCHANGED submitted

\* Faulty variant: the loop is left whatever the queues hold.
DrainReturnEarly(op, s) ==
    /\ pc = op
    /\ Store(s)
    /\ pc' = "idle"
    /\ call' = [call EXCEPT !.err = s.err, !.returned = Ok(s),
                            !.models = NoModels]
    /\ UNCHANGED submitted

\* ... and leaves the loop when pending_iters is falsy.
DrainReturn(op, s) ==
    /\ pc = op
    /\ ~Truthy(pending_iters)
    /\ Store(s)
    /\ pc' = "idle"
    /\ call' = [call EXCEPT !.err = s.err, !.returned = Ok(s),
                            !.models = NoModels]
    /\ UNCHANGED submitted

TrainEpochEndCall(models) == DrainCall("train_epoch_end", models)
TrainEpochEndPass(fault) == DrainStep("train_epoch_end", "train", fault)
TrainEpochEndReturn ==
    DrainReturn("train_epoch_end",
                Collab(Cur(NoFault, oplog), Ev("logic.train_epoch_end", "", -1),
                       "logic.train_epoch_end", FALSE))

EvalLoopEndCall(models) == DrainCall("eval_loop_end", models)
EvalLoopEndPass(fault) == DrainStep("eval_loop_end", "eval", fault)
EvalLoopEndReturn == DrainReturn("eval_loop_end", Cur(NoFault, oplog))

(***************************************************************************)
(* The backend finishes a computation: a pending DeferredResult of some    *)
(* queued iteration becomes done.                                          *)
(***************************************************************************)
Resolve(sn, i, k) ==
    /\ sn \in DOMAIN pending_iters
    /\ i \in DOMAIN pending_iters[sn]
    /\ k \in DOMAIN pending_iters[sn][i].deferred.comps
    /\ pending_iters[sn][i].deferred.comps[k].deferred
    /\ ~pending_iters[sn][i].deferred.comps[k].done
    /\ pending_iters' = [pending_iters EXCEPT ![sn][i].deferred.comps[k].done = TRUE]
    /\ UNCHANGED <<ppe_modules, pc, call, oplog, submitted, hist, disc>>

Backend ==
    \E sn \in DOMAIN pending_iters :
        \E i \in DOMAIN pending_iters[sn] :
            \E k \in DOMAIN pending_iters[sn][i].deferred.comps : Resolve(sn, i, k)

StepFaults == Faults \ {"wait"}
DrainFaults == Faults \ {"logic_step"}

\* The handler operations and the backend, with the models arguments drawn
\* from Models, the step outputs from Outs, the faults from Fs, the hooks
\* raising on a partition of Rs (0: none), and at most N steps submitted.
SetupOps(Models, Rs) ==
    \/ \E models \in Models, loader \in LoaderChoices,
          optimizers \in OptimizerChoices, raiseAt \in Rs :
            TrainSetup(models, loader, optimizers, raiseAt)
    \/ \E models \in Models, loader \in LoaderChoices, raiseAt \in Rs :
            EvalSetup(models, loader, raiseAt)
    \/ \E models \in Models, raiseAt \in Rs :
            TrainEpochBegin(models, raiseAt)

TrainOps(Models, Outs, Fs, Rs, N) ==
    \/ /\ Len(submitted) < N
       /\ \E models \in Models, outs \in Outs, raiseAt \in Rs,
             fault \in Fs \cap StepFaults :
               TrainStep(models, outs, raiseAt, fault)
    \/ \E models \in Models : TrainEpochEndCall(models)
    \/ \E fault \in Fs \cap DrainFaults : TrainEpochEndPass(fault)
    \/ TrainEpochEndReturn

EvalOps(Models, Outs, Fs, Rs, N) ==
    \/ /\ Len(submitted) < N
       /\ \E models \in Models, outs \in Outs, raiseAt \in Rs,
             fault \in Fs \cap StepFaults :
               EvalStep(models, outs, raiseAt, fault)
    \/ \E models \in Models : EvalLoopEndCall(models)
    \/ \E fault \in Fs \cap DrainFaults : EvalLoopEndPass(fault)
    \/ EvalLoopEndReturn

\* Every operation on every models argument and every shape of output, the
\* collaborators not raising.
Next ==
    \/ SetupOps(ModelsChoices, {0})
    \/ TrainOps(ModelsChoices, AllOuts, {NoFault}, {0}, MaxSteps)
    \/ EvalOps(ModelsChoices, AllOuts, {NoFault}, {0}, MaxSteps)
    \/ Backend

Spec == Init /\ [][Next]_vars

\* Every operation on every models argument, the runtime hooks raising or
\* not; the outputs are a plain value or one DeferredResult.
RegistryOuts ==
    ValueOuts \cup {[kind |-> "deferred", comps |-> <<Deferred(d, "t")>>] :
                        d \in BOOLEAN}
HookRaises == {0, 1, 2}

NextRegistry ==
    \/ SetupOps(ModelsChoices, HookRaises)
    \/ TrainOps(ModelsChoices, RegistryOuts, {NoFault}, HookRaises, MaxSteps)
    \/ EvalOps(ModelsChoices, RegistryOuts, {NoFault}, HookRaises, MaxSteps)
    \/ Backend

SpecRegistry == Init /\ [][NextRegistry]_vars

\* A run of one partition that trains and evaluates: both steps with every
\* shape of output, both drains, and the backend resolving in any order.
NextSingle ==
    \/ TrainOps({SingleModels}, AllOuts, {NoFault}, {0}, MaxMixed)
    \/ EvalOps({SingleModels}, AllOuts, {NoFault}, {0}, MaxMixed)
    \/ Backend

SpecSingle == Init /\ [][NextSingle]_vars

\* A training run of one partition: train_step with every shape of output,
\* train_epoch_end, and the backend resolving in any order.
NextTrain ==
    \/ TrainOps({SingleModels}, AllOuts, {NoFault}, {0}, MaxAsync)
    \/ Backend

SpecTrain == Init /\ [][NextTrain]_vars

\* The same with every output deferred.
DeferredOuts == {outs \in AllOuts : AreOutsDeferred(outs)}

NextDeferred ==
    \/ TrainOps({SingleModels}, DeferredOuts, {NoFault}, {0}, MaxAsync)
    \/ Backend

SpecDeferred == Init /\ [][NextDeferred]_vars

\* The bound on the steps of a run in which collaborators raise.
MaxFaulty == 2

\* A run of one partition in which any collaborator call may raise: both
\* steps, both drains, and the backend.  The outputs are a plain value, one
\* DeferredResult, or a mapping of a done and a pending DeferredResult.
FaultOuts ==
    ValueOuts
    \cup {[kind |-> "deferred", comps |-> <<Deferred(d, "t")>>] : d \in BOOLEAN}
    \cup {[kind |-> "dict", comps |-> <<Deferred(TRUE, "t"), Deferred(FALSE, "t")>>]}

NextFaults ==
    \/ TrainOps({SingleModels}, FaultOuts, Faults, {0}, MaxFaulty)
    \/ EvalOps({SingleModels}, FaultOuts, Faults, {0}, MaxFaulty)
    \/ Backend

SpecFaults == Init /\ [][NextFaults]_vars

\* The bound on the steps of a run whose drains are scheduled fairly.
MaxDrain == 2

\* A run of one partition that trains and evaluates, in which a drain that
\* has been entered keeps running: the thread in train_epoch_end or
\* eval_loop_end takes its next loop pass (every wait() returns) and leaves
\* the loop when the queues are empty.  Every step is deferred: a pending
\* DeferredResult, a done one whose get() returns None, or a mapping.
DrainOuts ==
    {[kind |-> "deferred", comps |-> <<Deferred(FALSE, "t")>>],
     [kind |-> "deferred", comps |-> <<Deferred(TRUE, None)>>],
     [kind |-> "dict", comps |-> <<Plain, Deferred(FALSE, "t")>>]}

NextDrain ==
    \/ TrainOps({SingleModels}, DrainOuts, {NoFault}, {0}, MaxDrain)
    \/ EvalOps({SingleModels}, DrainOuts, {NoFault}, {0}, MaxDrain)
    \/ Backend

SpecDrain ==
    /\ Init
    /\ [][NextDrain]_vars
    /\ WF_vars(TrainEpochEndPass(NoFault))
    /\ WF_vars(TrainEpochEndReturn)
    /\ WF_vars(EvalLoopEndPass(NoFault))
    /\ WF_vars(EvalLoopEndReturn)

(***************************************************************************)
(* Properties.                                                             *)
(***************************************************************************)
Sel(log, ev) == SelectSeq(log, LAMBDA e : e.ev = ev)
Idxs(log) == [i \in DOMAIN log |-> log[i].idx]
HasEv(log, ev) == \E i \in DOMAIN log : log[i].ev = ev
IsPrefix(a, b) == Len(a) <= Len(b) /\ SubSeq(b, 1, Len(a)) = a

\* The batch indices of the callbacks, of the optimizer steps and of the
\* submitted steps, each in order of occurrence.
CbIdxs == Idxs(Sel(hist, "cback"))
OptIdxs == Idxs(Sel(hist, "train_step_optimizers"))
SubIdxs == Idxs(submitted)

\* train_epoch_end has returned to its caller.
EpochEnded == pc = "idle" /\ call.op = "train_epoch_end" /\ call.returned

\* A handler step (train_step or eval_step) is taken.
StepTaken == submitted' # submitted

\* C1: in a training run of one partition in which every output is
\* deferred and the DeferredResults become done in any order, the
\* callbacks and the optimizer steps occur in submission order at all
\* times, and once train_epoch_end has returned there has been exactly one
\* callback and one optimizer step for every submitted step.
C1_DeferredInSubmissionOrder ==
    /\ IsPrefix(CbIdxs, SubIdxs)
    /\ OptIdxs = CbIdxs
    /\ EpochEnded => CbIdxs = SubIdxs

\* Three steps were submitted, train_epoch_end found a later step resolved
\* and the queue head not, and has returned.
C1_Witness ==
    /\ EpochEnded
    /\ Len(submitted) >= 3
    /\ "a" \in DOMAIN call.pre
    /\ Len(call.pre["a"]) >= 2
    /\ ~call.pre["a"][1].ready
    /\ call.pre["a"][2].ready
    /\ CbIdxs = SubIdxs

\* C2: in a training run of one partition whose steps are each plain or
\* deferred, once train_epoch_end has returned the callbacks are exactly
\* the submitted steps, in submission order.
C2_MixedInSubmissionOrder == EpochEnded => CbIdxs = SubIdxs

\* The callbacks of hist for batch index idx.
CallbacksFor(idx) ==
    {j \in DOMAIN hist : hist[j].ev = "cback" /\ hist[j].idx = idx}

\* C3: once train_epoch_end has returned, pending_iters is empty and every
\* iteration that was queued when it was called has had exactly one
\* callback, made with is_deferred=True.
C3_DrainComplete ==
    EpochEnded =>
        /\ ~Truthy(pending_iters)
        /\ \A sn \in DOMAIN call.pre : \A i \in DOMAIN call.pre[sn] :
              /\ Cardinality(CallbacksFor(call.pre[sn][i].idx)) = 1
              /\ \A j \in CallbacksFor(call.pre[sn][i].idx) :
                    hist[j].flag = "True"

\* train_epoch_end found two iterations queued and has returned.
C3_Witness ==
    /\ EpochEnded
    /\ "a" \in DOMAIN call.pre
    /\ Len(call.pre["a"]) >= 2

\* C4: a step whose output is deferred while two or more partitions are
\* registered ends in the async-split error, changes no queue, and makes
\* no done/wait/get call, optimizer step or callback.
C4_SplitRejected ==
    [][(StepTaken /\ call'.deferred /\ Len(ppe_modules') >= 2) =>
          /\ call'.err = AsyncSplitError
          /\ ~call'.returned
          /\ pending_iters' = pending_iters
          /\ hist' = hist
          /\ \A i \in DOMAIN oplog' :
                oplog'[i].ev \notin {"cback", "train_step_optimizers",
                                     "done", "wait", "get"}]_vars

\* A step with a deferred output was refused with two partitions
\* registered.
C4_Witness ==
    /\ call.op \in {"train_step", "eval_step"}
    /\ call.deferred
    /\ Len(ppe_modules) = 2
    /\ call.err = AsyncSplitError

\* The initialize_module calls of the operation.
InitCalls == Sel(oplog, "initialize_module")

\* C5: train_setup / eval_setup ends in the no-partition error exactly when
\* its discovery yields no partition, and then it has made no
\* initialize_module call.
C5_SetupNeedsPartition ==
    call.op \in {"train_setup", "eval_setup"} =>
        /\ disc.last = << >> =>
              /\ call.err = NoPartitionsError
              /\ InitCalls = << >>
        /\ disc.last # << >> => call.err # NoPartitionsError

\* train_setup was refused for want of a partition.
C5_Witness ==
    /\ call.op = "train_setup"
    /\ disc.last = << >>
    /\ call.err = NoPartitionsError

\* The output at the head of the one partition's queue when a step polls
\* it: the head the step found, or the step's own output when it found the
\* queue empty.
HeadPolled ==
    LET sn == ppe_modules'[1][1]
    IN  IF sn \in DOMAIN pending_iters /\ Len(pending_iters[sn]) > 0
        THEN [idx |-> pending_iters[sn][1].idx,
              deferred |-> pending_iters[sn][1].deferred]
        ELSE [idx |-> call'.idx, deferred |-> call'.outs]

\* C6: train_step and eval_step never call wait(); a step that finds the
\* queue head unresolved returns with that head still first in its queue
\* and nothing committed; wait() is called in train_epoch_end and
\* eval_loop_end only.
C6_StepsNeverWait ==
    [][/\ StepTaken => ~HasEv(oplog', "wait")
       /\ HasEv(oplog', "wait") =>
             call'.op \in {"train_epoch_end", "eval_loop_end"}
       /\ (StepTaken /\ call'.deferred /\ Len(ppe_modules') = 1
             /\ ~AllDone(HeadPolled.deferred)) =>
             /\ call'.returned
             /\ ppe_modules'[1][1] \in DOMAIN pending_iters'
             /\ pending_iters'[ppe_modules'[1][1]][1].idx = HeadPolled.idx
             /\ pending_iters'[ppe_modules'[1][1]][1].deferred =
                    HeadPolled.deferred
             /\ hist' = hist]_vars

\* train_step has returned leaving two iterations queued, the head's
\* output unresolved, after polling it.
C6_Witness ==
    /\ call.op = "train_step"
    /\ call.deferred
    /\ call.returned
    /\ "a" \in DOMAIN pending_iters
    /\ Len(pending_iters["a"]) >= 2
    /\ ~AllDone(pending_iters["a"][1].deferred)
    /\ HasEv(oplog, "done")

\* C7: a train_step whose output holds no DeferredResult steps the
\* optimizers for its batch index and then calls complete_fn for that
\* index with the plain output and no is_deferred flag, as the last two
\* calls of the operation, and changes no queue; and while every submitted
\* step was such a step the callbacks are the submitted indices in order.
C7_SyncCommit ==
    /\ [][(StepTaken /\ call'.op = "train_step" /\ ~call'.deferred) =>
             /\ pending_iters' = pending_iters
             /\ Len(oplog') >= 2
             /\ oplog'[Len(oplog') - 1] =
                    Ev("train_step_optimizers", "", call'.idx)
             /\ oplog'[Len(oplog')] =
                    [Ev("cback", "", call'.idx) EXCEPT
                        !.outs = PlainT(call'.outs),
                        !.flag = "not_passed", !.fn = "train_cb"]
             /\ Len(Sel(oplog', "cback")) = 1
             /\ Len(Sel(oplog', "train_step_optimizers")) = 1
             /\ Len(hist') = Len(hist) + 2]_vars
    /\ []((\A i \in DOMAIN submitted :
              submitted[i].op = "train" /\ ~submitted[i].deferred) =>
             /\ CbIdxs = SubIdxs
             /\ OptIdxs = SubIdxs
             /\ \A j \in DOMAIN hist : hist[j].flag # "True")

\* A synchronous train_step has committed while an earlier iteration is
\* still queued.
C7_Witness ==
    /\ call.op = "train_step"
    /\ ~call.deferred
    /\ call.returned
    /\ "a" \in DOMAIN pending_iters
    /\ Len(pending_iters["a"]) >= 1
    /\ Len(hist) >= 2
    /\ hist[Len(hist)].ev = "cback"
    /\ hist[Len(hist)].idx = call.idx

\* The done() calls of the operation.
DoneCalls == Sel(oplog, "done")

\* C8 as stated: a train_step or eval_step makes at most one done() call.
C8_AtMostOneDone ==
    call.op \in {"train_step", "eval_step"} => Len(DoneCalls) <= 1

\* C8 as amended: a train_step or eval_step polls the queue head only, and
\* calls done() at most once on each DeferredResult of the head's output:
\* at most once for a single DeferredResult, at most once per deferred
\* entry, in entry order, for a mapping; a synchronous step makes none.
C8_OnePollOfTheHead ==
    [][StepTaken =>
          LET dones == Sel(oplog', "done")
          IN  /\ ~call'.deferred => dones = << >>
              /\ (call'.deferred /\ Len(ppe_modules') = 1) =>
                    /\ \A i \in DOMAIN dones :
                          /\ dones[i].idx \in DOMAIN HeadPolled.deferred.comps
                          /\ HeadPolled.deferred.comps[dones[i].idx].deferred
                    /\ \A i, j \in DOMAIN dones :
                          i < j => dones[i].idx < dones[j].idx
                    /\ HeadPolled.deferred.kind = "deferred" =>
                          Len(dones) <= 1]_vars

\* A step has made two done() calls.
C8_Witness ==
    /\ call.op \in {"train_step", "eval_step"}
    /\ Len(DoneCalls) = 2

\* C9: from the first discovery on, every _runtime_iterator call yields the
\* partitions of the models given to the first one, in order (all of them
\* when it is run to its end).
C9_RegistryWriteOnce ==
    disc.n >= 1 =>
        /\ IsPrefix(disc.last, disc.first)
        /\ disc.full => disc.last = disc.first

\* C10: a queue holds an iteration only while exactly one partition is
\* registered, and it is that partition's queue.
C10_PendingOnlyWithOnePartition ==
    \A sn \in DOMAIN pending_iters :
        Len(pending_iters[sn]) > 0 =>
            /\ Len(ppe_modules) = 1
            /\ ppe_modules[1][1] = sn

\* An iteration is queued in a run whose first discovery was over models of
\* two partitions and was cut short by a raising hook.
C10_Witness ==
    /\ "a" \in DOMAIN pending_iters
    /\ Len(pending_iters["a"]) > 0
    /\ disc.first = <<PA, PB>>

\* The partition of a run of one partition, and its queue before the step
\* (empty when there is none).
TheName == ppe_modules'[1][1]
QueueBefore ==
    IF TheName \in DOMAIN pending_iters THEN pending_iters[TheName] ELSE << >>

\* C11: a deferred train_step that finds every DeferredResult of the queue
\* head done, whatever their get() returns, steps the optimizers for the
\* head's index and then calls the head's callback with is_deferred=False,
\* and the head has left the queue.
C11_ResolvedHeadCommitted ==
    [][(StepTaken /\ call'.op = "train_step" /\ call'.deferred
          /\ Len(ppe_modules') = 1 /\ AllDone(HeadPolled.deferred)) =>
          /\ hist' = hist \o
                <<[ev |-> "train_step_optimizers", idx |-> HeadPolled.idx,
                   flag |-> "-"],
                  [ev |-> "cback", idx |-> HeadPolled.idx, flag |-> "False"]>>
          /\ TheName \in DOMAIN pending_iters' =>
                \A i \in DOMAIN pending_iters'[TheName] :
                    pending_iters'[TheName][i].idx # HeadPolled.idx]_vars

\* C12: a deferred step that finds a DeferredResult of the queue head not
\* done leaves the queue as it was with the new iteration appended, and
\* performs no optimizer step and no callback.
C12_AllOrNothing ==
    [][(StepTaken /\ call'.deferred /\ Len(ppe_modules') = 1
          /\ ~AllDone(HeadPolled.deferred)) =>
          /\ TheName \in DOMAIN pending_iters'
          /\ pending_iters'[TheName] =
                Append(QueueBefore,
                       [deferred |-> call'.outs, idx |-> call'.idx,
                        batch |-> "converted",
                        cback |-> IF call'.op = "train_step"
                                  THEN "train_cb" ELSE "eval_cb"])
          /\ hist' = hist
          /\ ~HasEv(oplog', "cback")
          /\ ~HasEv(oplog', "train_step_optimizers")
          /\ call'.returned]_vars

\* A step has returned after taking the value of the first entry of the
\* head, a mapping, and finding its second entry not done; two iterations
\* are queued.
C12_Witness ==
    /\ call.op \in {"train_step", "eval_step"}
    /\ call.deferred
    /\ call.returned
    /\ HasEv(oplog, "get")
    /\ ~HasEv(oplog, "cback")
    /\ "a" \in DOMAIN pending_iters
    /\ Len(pending_iters["a"]) = 2
    /\ pending_iters["a"][1].deferred.kind = "dict"
    /\ ~AllDone(pending_iters["a"][1].deferred)

\* The step submitted with batch index idx.
SubmittedAs(idx) == submitted[idx + 1]

\* C13: every callback of an iteration that train_step enqueued comes
\* right after a train_step_optimizers call for the same batch index, the
\* only such call of the run, whichever operation commits the iteration.
C13_TrainCommitStepsOptimizers ==
    \A j \in DOMAIN hist :
        (/\ hist[j].ev = "cback"
         /\ SubmittedAs(hist[j].idx).op = "train"
         /\ SubmittedAs(hist[j].idx).deferred) =>
            /\ j > 1
            /\ hist[j - 1].ev = "train_step_optimizers"
            /\ hist[j - 1].idx = hist[j].idx
            /\ Cardinality({i \in DOMAIN hist :
                              /\ hist[i].ev = "train_step_optimizers"
                              /\ hist[i].idx = hist[j].idx}) = 1

\* The batch indices of the iterations held in the queues.
QueuedIdxs(pend) ==
    UNION {{pend[sn][i].idx : i \in DOMAIN pend[sn]} : sn \in DOMAIN pend}

\* A step has appended its iteration to a queue: it went on to poll the head.
Enqueued == StepTaken /\ HasEv(oplog', "done")

\* The optimizer steps and callbacks made by the step being taken.
NewHist == SubSeq(hist', Len(hist) + 1, Len(hist'))

\* C14: whenever an iteration leaves the queues, its callback is invoked
\* in the same handler operation.
C14_LeavesOnlyCommitted ==
    [][LET before == QueuedIdxs(pending_iters)
                        \cup (IF Enqueued THEN {call'.idx} ELSE {})
       IN  \A idx \in before \ QueuedIdxs(pending_iters') :
              \E j \in DOMAIN NewHist :
                  NewHist[j].ev = "cback" /\ NewHist[j].idx = idx]_vars

\* The collaborator calls made by the step being taken.
NewCalls ==
    IF StepTaken THEN oplog'
    ELSE SubSeq(oplog', Len(oplog) + 1, Len(oplog'))

\* The batch indices of a queue, head first.
QueueIdxs(pend, sn) == IF sn \in DOMAIN pend THEN Idxs(pend[sn]) ELSE << >>

\* C15: when done(), wait() or get() raises while the head is resolved,
\* the operation ends with that error; the raising call is the last call
\* made and is made once; no optimizer step and no callback is performed;
\* and the queue holds the iterations it held, the head first (after the
\* iteration a step has just appended).
C15_ResolutionFailureCommitsNothing ==
    [][(call'.err = "DeferredError" /\ call' # call) =>
          LET last == NewCalls[Len(NewCalls)]
          IN  /\ ~call'.returned
              /\ pc' = "idle"
              /\ Len(NewCalls) >= 1
              /\ last.ev \in {"done", "wait", "get"}
              /\ Cardinality({i \in DOMAIN NewCalls :
                                /\ NewCalls[i].ev = last.ev
                                /\ NewCalls[i].idx = last.idx}) = 1
              /\ hist' = hist
              /\ QueueIdxs(pending_iters', "a") =
                    QueueIdxs(pending_iters, "a")
                        \o (IF StepTaken THEN <<call'.idx>> ELSE << >>)
              /\ QueueIdxs(pending_iters', "a") # << >>]_vars

\* train_epoch_end has ended in the error of a wait() on the head of a
\* queue of two iterations.
C15_Witness ==
    /\ call.op = "train_epoch_end"
    /\ call.err = "DeferredError"
    /\ Len(oplog) >= 1
    /\ oplog[Len(oplog)].ev = "wait"
    /\ "a" \in DOMAIN pending_iters
    /\ Len(pending_iters["a"]) = 2

\* The iterations queued when the drain in progress (or last finished)
\* was called.
PreIdxs ==
    UNION {{call.pre[sn][i].idx : i \in DOMAIN call.pre[sn]} :
              sn \in DOMAIN call.pre}

\* C16: when train_epoch_end has called Logic.train_epoch_end, that call
\* is its last, every queue is empty, and every iteration that was queued
\* has had its optimizer step and its callback.
C16_EpochEndHookAfterDrain ==
    (call.op = "train_epoch_end" /\ HasEv(oplog, "logic.train_epoch_end")) =>
        /\ ~Truthy(pending_iters)
        /\ oplog[Len(oplog)].ev = "logic.train_epoch_end"
        /\ Len(Sel(oplog, "logic.train_epoch_end")) = 1
        /\ \A idx \in PreIdxs :
              /\ \E j \in DOMAIN oplog :
                    oplog[j].ev = "train_step_optimizers" /\ oplog[j].idx = idx
              /\ \E j \in DOMAIN oplog :
                    oplog[j].ev = "cback" /\ oplog[j].idx = idx

\* Logic.train_epoch_end has been called by a train_epoch_end that found
\* an unresolved iteration at the head of the queue.
C16_Witness ==
    /\ call.op = "train_epoch_end"
    /\ HasEv(oplog, "logic.train_epoch_end")
    /\ "a" \in DOMAIN call.pre
    /\ ~call.pre["a"][1].ready

\* C17: in a run of one partition whose wait() calls return, every pass of
\* a drain removes exactly the head of the queue, and a drain that has been
\* entered returns with every queue empty.
C17_DrainTerminates ==
    /\ [][(pc \in {"train_epoch_end", "eval_loop_end"} /\ Truthy(pending_iters)
             /\ (pc' # pc \/ oplog' # oplog)) =>
             /\ pc' = pc
             /\ QueueIdxs(pending_iters, "a") # << >>
             /\ QueueIdxs(pending_iters', "a") =
                    Tail(QueueIdxs(pending_iters, "a"))]_vars
    /\ (pc = "train_epoch_end") ~>
           (/\ pc = "idle" /\ call.op = "train_epoch_end" /\ call.returned
            /\ ~Truthy(pending_iters))
    /\ (pc = "eval_loop_end") ~>
           (/\ pc = "idle" /\ call.op = "eval_loop_end" /\ call.returned
            /\ ~Truthy(pending_iters))

\* train_epoch_end has returned after finding two iterations queued,
\* neither of them resolved.
C17_Witness ==
    /\ pc = "idle"
    /\ call.op = "train_epoch_end"
    /\ call.returned
    /\ ~Truthy(pending_iters)
    /\ "a" \in DOMAIN call.pre
    /\ Len(call.pre["a"]) = 2
    /\ ~call.pre["a"][1].ready
    /\ ~call.pre["a"][2].ready

\* C18: eval_step and eval_loop_end never call train_step_optimizers.  A
\* pass of eval_loop_end pops the head and calls its callback with
\* is_deferred=True; a deferred eval_step pops the head and calls its
\* callback with is_deferred=False, or commits nothing; a synchronous
\* eval_step calls its own callback and leaves the queues alone; and once
\* eval_loop_end has returned every queue is empty.
C18_EvalNeverStepsOptimizers ==
    /\ [][(call'.op \in {"eval_step", "eval_loop_end"}
             /\ (StepTaken \/ pc = "eval_loop_end")) =>
             /\ \A j \in DOMAIN NewHist : NewHist[j].ev = "cback"
             /\ ~HasEv(oplog', "train_step_optimizers")
             /\ (pc = "eval_loop_end" /\ oplog' # oplog) =>
                   /\ NewHist = <<[ev |-> "cback",
                                   idx |-> pending_iters["a"][1].idx,
                                   flag |-> "True"]>>
                   /\ QueueIdxs(pending_iters', "a") =
                          Tail(QueueIdxs(pending_iters, "a"))
             /\ (StepTaken /\ call'.deferred) =>
                   \/ /\ NewHist = << >>
                      /\ QueueIdxs(pending_iters', "a") =
                             Append(QueueIdxs(pending_iters, "a"), call'.idx)
                   \/ /\ NewHist = <<[ev |-> "cback", idx |-> HeadPolled.idx,
                                      flag |-> "False"]>>
                      /\ QueueIdxs(pending_iters', "a") =
                             Tail(Append(QueueIdxs(pending_iters, "a"),
                                         call'.idx))
             /\ (StepTaken /\ ~call'.deferred) =>
                   /\ NewHist = <<[ev |-> "cback", idx |-> call'.idx,
                                   flag |-> "not_passed"]>>
                   /\ pending_iters' = pending_iters]_vars
    /\ []((pc = "idle" /\ call.op = "eval_loop_end" /\ call.returned) =>
             ~Truthy(pending_iters))

\* eval_loop_end has returned after committing an evaluation iteration it
\* found unresolved.
C18_Witness ==
    /\ pc = "idle"
    /\ call.op = "eval_loop_end"
    /\ call.returned
    /\ "a" \in DOMAIN call.pre
    /\ ~call.pre["a"][1].ready
    /\ SubmittedAs(call.pre["a"][1].idx).op = "eval"
    /\ \E j \in DOMAIN oplog : oplog[j].ev = "cback" /\ oplog[j].flag = "True"

\* What a committed iteration's callback is to receive for an output: for
\* a mapping, under each key the entry's own value or the value of its
\* get(); for a single DeferredResult the value of its get().
Expected(outs) ==
    IF outs.kind = "dict"
    THEN DictT([k \in DOMAIN outs.comps |-> outs.comps[k].val])
    ELSE GetT(outs.comps[1].val)

\* An output without the progress of its DeferredResults.
Shape(outs) ==
    [kind |-> outs.kind,
     vals |-> [k \in DOMAIN outs.comps |->
                 [deferred |-> outs.comps[k].deferred,
                  val |-> outs.comps[k].val]]]

\* The callbacks invoked by the step being taken.
NewCbacks == Sel(NewCalls, "cback")

\* C19: a queued iteration carries the batch index and the output of the
\* step that submitted it for as long as it is queued, and the callback of
\* a committed iteration receives that batch index and that output
\* resolved: the plain entries of a mapping as they are and get()'s value
\* for the deferred ones, or get()'s value for a single DeferredResult.
C19_CallbackGetsOwnOutputs ==
    [][/\ (StepTaken /\ ~call'.deferred) =>
             \A j \in DOMAIN NewCbacks :
                 /\ NewCbacks[j].idx = call'.idx
                 /\ NewCbacks[j].outs = PlainT(call'.outs)
       /\ (StepTaken /\ call'.deferred /\ Len(ppe_modules') = 1) =>
             \A j \in DOMAIN NewCbacks :
                 /\ NewCbacks[j].idx = HeadPolled.idx
                 /\ NewCbacks[j].outs = Expected(HeadPolled.deferred)
       /\ (~StepTaken /\ NewCbacks # << >>) =>
             \A j \in DOMAIN NewCbacks :
                 /\ NewCbacks[j].idx = pending_iters["a"][1].idx
                 /\ NewCbacks[j].outs =
                        Expected(pending_iters["a"][1].deferred)
       /\ (Enqueued /\ call'.idx \in QueuedIdxs(pending_iters')) =>
             LET q == pending_iters'["a"]
             IN  /\ q[Len(q)].idx = call'.idx
                 /\ q[Len(q)].deferred = call'.outs
       /\ \A sn \in DOMAIN pending_iters \cap DOMAIN pending_iters' :
             \A i \in DOMAIN pending_iters[sn], j \in DOMAIN pending_iters'[sn] :
                 pending_iters[sn][i].idx = pending_iters'[sn][j].idx =>
                     Shape(pending_iters[sn][i].deferred) =
                         Shape(pending_iters'[sn][j].deferred)]_vars

\* train_epoch_end has handed a callback a mapping of a plain value and the
\* value of a DeferredResult it had to wait for.
C19_Witness ==
    /\ call.op = "train_epoch_end"
    /\ HasEv(oplog, "wait")
    /\ \E j \in DOMAIN oplog :
          /\ oplog[j].ev = "cback"
          /\ oplog[j].outs = DictT(<<"p", "t">>)

\* The optimizer a partition named n is to be initialized with.
ExpectedOptimizer(optimizers, n) ==
    IF n \in DOMAIN optimizers THEN optimizers[n]
    ELSE IF Cardinality(DOMAIN optimizers) = 1
    THEN CHOOSE o \in Range(optimizers) : TRUE
    ELSE None

\* C20: a setup in which no hook raises calls initialize_module once for
\* every partition of the registry, in registry order, with the optimizer
\* registered under the partition's name, else the sole optimizer when
\* exactly one was supplied, else None.
C20_SetupResolvesOptimizers ==
    (call.op \in {"train_setup", "eval_setup"} /\ call.err # "HookError") =>
        /\ Len(InitCalls) = Len(ppe_modules)
        /\ \A i \in DOMAIN InitCalls :
              /\ InitCalls[i].sn = ppe_modules[i][1]
              /\ InitCalls[i].fn =
                    ExpectedOptimizer(call.optimizers, InitCalls[i].sn)

\* train_setup has initialized two partitions with optimizers registered
\* under other names: the second partition got None.
C20_Witness ==
    /\ call.op = "train_setup"
    /\ call.returned
    /\ DOMAIN call.optimizers = {"b", "c"}
    /\ Len(InitCalls) = 2
    /\ InitCalls[1].sn = "a"
    /\ InitCalls[1].fn = None
    /\ InitCalls[2].fn = "ob"

\* C21: the calls of a train_step (eval_step) in which no hook raises are,
\* in order: train_pre_step (eval_pre_step) on every partition of the
\* registry in registry order, convert_batch, Logic.train_step
\* (Logic.eval_step) on the converted batch, and after these nothing but
\* the polling of a DeferredResult, optimizer steps and callbacks.
C21_StepCallOrder ==
    (call.op \in {"train_step", "eval_step"} /\ call.err # "HookError") =>
        LET n == Len(ppe_modules)
            hook == IF call.op = "train_step" THEN "train_pre_step"
                    ELSE "eval_pre_step"
            logic == IF call.op = "train_step" THEN "logic.train_step"
                     ELSE "logic.eval_step"
        IN  /\ Len(oplog) >= n + 2
            /\ \A i \in 1..n :
                  /\ oplog[i].ev = hook
                  /\ oplog[i].sn = ppe_modules[i][1]
                  /\ oplog[i].idx = call.idx
            /\ oplog[n + 1].ev = "convert_batch"
            /\ oplog[n + 2].ev = logic
            /\ oplog[n + 2].load = "converted"
            /\ \A j \in (n + 3)..Len(oplog) :
                  oplog[j].ev \in {"done", "get", "train_step_optimizers",
                                   "cback"}

\* A synchronous train_step over two partitions has returned: two hooks,
\* convert_batch, Logic.train_step, the optimizer step and the callback.
C21_Witness ==
    /\ call.op = "train_step"
    /\ call.returned
    /\ ~call.deferred
    /\ Len(ppe_modules) = 2
    /\ Len(oplog) = 6
    /\ oplog[6].ev = "cback"

\* C22: a deferred step of a run of one partition commits at most one
\* iteration, the queue head, so that the queue is afterwards as long as
\* before or longer by one; and a queue that holds an iteration is emptied
\* by train_epoch_end or eval_loop_end only.
C22_AtMostOneCommitPerStep ==
    [][/\ (StepTaken /\ call'.deferred /\ Len(ppe_modules') = 1) =>
             LET before == QueueIdxs(pending_iters, "a")
                 after == QueueIdxs(pending_iters', "a")
             IN  /\ Len(NewCbacks) <= 1
                 /\ \/ after = Append(before, call'.idx)
                    \/ after = Tail(Append(before, call'.idx))
                 /\ Len(after) \in {Len(before), Len(before) + 1}
                 /\ after # Append(before, call'.idx) =>
                       /\ Len(NewCbacks) = 1
                       /\ NewCbacks[1].idx = HeadPolled.idx
       /\ (QueueIdxs(pending_iters, "a") # << >>
             /\ QueueIdxs(pending_iters', "a") = << >>) =>
             pc \in {"train_epoch_end", "eval_loop_end"}]_vars

\* A deferred step has committed the head it found in the queue and left
\* its own iteration queued.
C22_Witness ==
    /\ call.op \in {"train_step", "eval_step"}
    /\ call.deferred
    /\ call.returned
    /\ \E j \in DOMAIN oplog :
          oplog[j].ev = "cback" /\ oplog[j].idx = call.idx - 1
    /\ QueueIdxs(pending_iters, "a") = <<call.idx>>

\* The names of the registered partitions.
RegisteredNames == {ppe_modules[i][1] : i \in DOMAIN ppe_modules}

\* C23: between handler operations every key of pending_iters is the name
\* of a registered partition and maps to a non-empty list.
C23_KeysHoldIterations ==
    pc = "idle" =>
        \A sn \in DOMAIN pending_iters :
            /\ sn \in RegisteredNames
            /\ Len(pending_iters[sn]) > 0

\* C24: with two or more partitions registered, train_epoch_end and
\* eval_loop_end find pending_iters empty and leave it empty, make no
\* done(), wait() or get() call, no optimizer step and no callback, and
\* return without error.
C24_SplitDrainIsIdle ==
    (call.op \in {"train_epoch_end", "eval_loop_end"}
        /\ Len(ppe_modules) >= 2) =>
        /\ call.pre = EmptyDict
        /\ pending_iters = EmptyDict
        /\ call.err = "none"
        /\ pc = "idle" => call.returned
        /\ \A j \in DOMAIN oplog :
              oplog[j].ev \notin {"done", "wait", "get", "cback",
                                  "train_step_optimizers"}

\* train_epoch_end has returned in a run of two partitions after a
\* synchronous step.
C24_Witness ==
    /\ call.op = "train_epoch_end"
    /\ call.returned
    /\ Len(ppe_modules) = 2
    /\ Len(submitted) >= 1
    /\ ~submitted[1].deferred
    /\ Len(hist) >= 1
    /\ HasEv(oplog, "logic.train_epoch_end")

====
